---- MODULE Spec2Model ----
(***************************************************************************)
(* Model of src/raw/layer.rs: the Layer factory, the LayeredAccessor       *)
(* trait with its default (forwarding) methods, and the blanket            *)
(* `impl<L: LayeredAccessor> Accessor for L`.                              *)
(*                                                                         *)
(* An accessor chain is a sequence of layered accessors over a backend.    *)
(* Level 0 is the backend, level k >= 1 is chain[k], whose inner is the    *)
(* accessor at level k - 1.  One client call is one action; the call is    *)
(* evaluated by AccessorCall / LayeredCall, which follow the method bodies *)
(* of the source and record one frame per method that runs.                *)
(***************************************************************************)
EXTENDS Integers, Sequences, FiniteSets, TLC

(* ------------------------------ bounds -------------------------------- *)
MaxDepth == 2        \* layers applied on top of the backend
MaxCount == 6        \* cap of the shared byte counter of the counting layer
MaxRead  == 2        \* largest number of bytes asked from a reader at once

(* ------------------------- operation names ---------------------------- *)
AsyncOps == {"create", "read", "write", "stat", "delete", "list", "scan", "batch"}

BlockingOps == {"blocking_create", "blocking_read", "blocking_write",
                "blocking_stat", "blocking_delete", "blocking_list",
                "blocking_scan"}

\* the methods of the Accessor interface
AccessorOps == {"info", "presign"} \cup AsyncOps \cup BlockingOps

\* the methods of the LayeredAccessor interface (apart from inner())
LayeredOps == {"metadata", "presign"} \cup AsyncOps \cup BlockingOps

\* the operation a method name stands for, whatever its form
BaseOp(m) ==
  CASE m = "metadata"        -> "info"
    [] m = "blocking_create" -> "create"
    [] m = "blocking_read"   -> "read"
    [] m = "blocking_write"  -> "write"
    [] m = "blocking_stat"   -> "stat"
    [] m = "blocking_delete" -> "delete"
    [] m = "blocking_list"   -> "list"
    [] m = "blocking_scan"   -> "scan"
    [] OTHER                 -> m

(* ----------------------------- values --------------------------------- *)
Root  == "/"
Files == {"/a", "/d/b"}
Paths == {Root} \cup Files
Args  == {0, 1}

Hello == <<"h", "e", "l", "l", "o">>

NoHandle == [type |-> "none", wrap |-> <<>>, data |-> <<>>, pos |-> 0, path |-> ""]

\* a method body that is absent (a trait method declared without a body)
NoBody == [has |-> FALSE, call |-> "", aw |-> FALSE]

Fwd(m, aw) == [has |-> TRUE, call |-> m, aw |-> aw]

Ok(kind, len, h) == [ok |-> TRUE, kind |-> kind, len |-> len, h |-> h]
Err(kind)        == [ok |-> FALSE, kind |-> kind, len |-> 0, h |-> NoHandle]

(* ------------------- LayeredAccessor default bodies -------------------- *)
\* The body the trait gives each method: the Accessor method of inner() it
\* calls and whether the call is awaited.  NoBody: declared without a body.
\* slip: metadata answered from an operation of the backend that can fail
LayeredAccessor_metadata_Slip == Fwd("presign", FALSE)

LayeredAccessor_metadata == Fwd("info", FALSE)

LayeredAccessor_create == Fwd("create", TRUE)

\* slip: read given a forwarding default
LayeredAccessor_read_Slip == Fwd("read", TRUE)

LayeredAccessor_read == NoBody

LayeredAccessor_write == NoBody

LayeredAccessor_stat == Fwd("stat", TRUE)

\* slip: delete written as a copy of stat
LayeredAccessor_delete_Slip == Fwd("stat", TRUE)

LayeredAccessor_delete == Fwd("delete", TRUE)

LayeredAccessor_list == NoBody

LayeredAccessor_scan == NoBody

\* slip: batch sent to delete
LayeredAccessor_batch_Slip == Fwd("delete", TRUE)

LayeredAccessor_batch == Fwd("batch", TRUE)

LayeredAccessor_presign == Fwd("presign", FALSE)

LayeredAccessor_blocking_create == Fwd("blocking_create", FALSE)

LayeredAccessor_blocking_read == NoBody

LayeredAccessor_blocking_write == NoBody

LayeredAccessor_blocking_stat == Fwd("blocking_stat", FALSE)

\* slip: blocking_delete written as a copy of blocking_stat
LayeredAccessor_blocking_delete_Slip == Fwd("blocking_stat", FALSE)

LayeredAccessor_blocking_delete == Fwd("blocking_delete", FALSE)

LayeredAccessor_blocking_list == NoBody

LayeredAccessor_blocking_scan == NoBody

DefaultBody(m) ==
  CASE m = "metadata"         -> LayeredAccessor_metadata
    [] m = "create"           -> LayeredAccessor_create
    [] m = "read"             -> LayeredAccessor_read
    [] m = "write"            -> LayeredAccessor_write
    [] m = "stat"             -> LayeredAccessor_stat
    [] m = "delete"           -> LayeredAccessor_delete
    [] m = "list"             -> LayeredAccessor_list
    [] m = "scan"             -> LayeredAccessor_scan
    [] m = "batch"            -> LayeredAccessor_batch
    [] m = "presign"          -> LayeredAccessor_presign
    [] m = "blocking_create"  -> LayeredAccessor_blocking_create
    [] m = "blocking_read"    -> LayeredAccessor_blocking_read
    [] m = "blocking_write"   -> LayeredAccessor_blocking_write
    [] m = "blocking_stat"    -> LayeredAccessor_blocking_stat
    [] m = "blocking_delete"  -> LayeredAccessor_blocking_delete
    [] m = "blocking_list"    -> LayeredAccessor_blocking_list
    [] m = "blocking_scan"    -> LayeredAccessor_blocking_scan

\* the methods an implementation has to supply
Required == {m \in LayeredOps : ~DefaultBody(m).has}

(* --------------- impl<L: LayeredAccessor> Accessor for L --------------- *)
\* The LayeredAccessor method each Accessor method of the blanket impl calls
\* on (self as &L), and whether the call is awaited.
Accessor_info == Fwd("metadata", FALSE)

Accessor_create == Fwd("create", TRUE)

Accessor_read == Fwd("read", TRUE)

Accessor_write == Fwd("write", TRUE)

Accessor_stat == Fwd("stat", TRUE)

Accessor_delete == Fwd("delete", TRUE)

Accessor_list == Fwd("list", TRUE)

Accessor_scan == Fwd("scan", TRUE)

Accessor_batch == Fwd("batch", TRUE)

Accessor_presign == Fwd("presign", FALSE)

Accessor_blocking_create == Fwd("blocking_create", FALSE)

Accessor_blocking_read == Fwd("blocking_read", FALSE)

Accessor_blocking_write == Fwd("blocking_write", FALSE)

Accessor_blocking_stat == Fwd("blocking_stat", FALSE)

Accessor_blocking_delete == Fwd("blocking_delete", FALSE)

\* slip: blocking_list written as a copy of blocking_scan
Accessor_blocking_list_Slip == Fwd("blocking_scan", FALSE)

Accessor_blocking_list == Fwd("blocking_list", FALSE)

\* slip: the blocking form routed to the asynchronous method
Accessor_blocking_scan_Slip == Fwd("scan", TRUE)

Accessor_blocking_scan == Fwd("blocking_scan", FALSE)

BridgeBody(op) ==
  CASE op = "info"             -> Accessor_info
    [] op = "create"           -> Accessor_create
    [] op = "read"             -> Accessor_read
    [] op = "write"            -> Accessor_write
    [] op = "stat"             -> Accessor_stat
    [] op = "delete"           -> Accessor_delete
    [] op = "list"             -> Accessor_list
    [] op = "scan"             -> Accessor_scan
    [] op = "batch"            -> Accessor_batch
    [] op = "presign"          -> Accessor_presign
    [] op = "blocking_create"  -> Accessor_blocking_create
    [] op = "blocking_read"    -> Accessor_blocking_read
    [] op = "blocking_write"   -> Accessor_blocking_write
    [] op = "blocking_stat"    -> Accessor_blocking_stat
    [] op = "blocking_delete"  -> Accessor_blocking_delete
    [] op = "blocking_list"    -> Accessor_blocking_list
    [] op = "blocking_scan"    -> Accessor_blocking_scan

(* ----------------------- layers of the repository ---------------------- *)
\* the methods TraceAccessor (the documented example) implements itself
TraceMethods == {"read", "blocking_read", "write", "blocking_write",
                 "list", "blocking_list", "scan", "blocking_scan"}

\* An implementation of LayeredAccessor as written by a layer author: the
\* documented example, possibly with some of its methods left out.
Adapter(name, missing) == [name |-> name, missing |-> missing]

TraceLayer    == Adapter("Trace", {})
CountingLayer == Adapter("Counting", {})
TestLayer     == Adapter("Test", {})

\* the method bodies an adapter supplies itself
Supplied(a) == IF a.name = "Test" THEN {} ELSE TraceMethods \ a.missing

\* rustc accepts an impl of a trait only if every method without a default
\* body is supplied (Test implements Accessor itself, not LayeredAccessor)
Compiles(a) == a.name = "Test" \/ Required \subseteq Supplied(a)

\* TraceAccessor: every method it implements calls the same method of inner
TraceAccessor_read == Fwd("read", TRUE)

TraceAccessor_blocking_read == Fwd("blocking_read", FALSE)

TraceAccessor_write == Fwd("write", TRUE)

TraceAccessor_blocking_write == Fwd("blocking_write", FALSE)

\* slip: list written as a copy of scan
TraceAccessor_list_Slip == Fwd("scan", TRUE)

TraceAccessor_list == Fwd("list", TRUE)

TraceAccessor_blocking_list == Fwd("blocking_list", FALSE)

TraceAccessor_scan == Fwd("scan", TRUE)

TraceAccessor_blocking_scan == Fwd("blocking_scan", FALSE)

TraceBody(m) ==
  CASE m = "read"           -> TraceAccessor_read
    [] m = "blocking_read"  -> TraceAccessor_blocking_read
    [] m = "write"          -> TraceAccessor_write
    [] m = "blocking_write" -> TraceAccessor_blocking_write
    [] m = "list"           -> TraceAccessor_list
    [] m = "blocking_list"  -> TraceAccessor_blocking_list
    [] m = "scan"           -> TraceAccessor_scan
    [] m = "blocking_scan"  -> TraceAccessor_blocking_scan
    [] OTHER                -> NoBody

\* the body that runs for method m of a layered accessor: the adapter's own
\* if it supplies one, else the default of the trait
MethodBody(a, m) == IF m \in Supplied(a) THEN TraceBody(m) ELSE DefaultBody(m)

\* Layer::layer of TraceLayer (and of the counting layer): the accessor it
\* returns holds the inner accessor it was given
TraceLayerOf(a) == [name |-> a.name, missing |-> a.missing, inner |-> TRUE]

\* the `test` value of tests::test_layer, built with inner: None and only
\* used as the factory
TestFactory == [name |-> "Test", missing |-> {}, inner |-> FALSE]

\* slip: the accessor built from the factory keeps the factory's inner: None
TestLayerOf_Slip(self) == self

\* Layer::layer of &Test: Test { inner: Some(inner), deleted: shared }
TestLayerOf(self) == [self EXCEPT !.inner = TRUE]

\* Layer::layer of the layer that builds adapter a
LayerOf(a) == IF a.name = "Test" THEN TestLayerOf(TestFactory) ELSE TraceLayerOf(a)

\* the counting layer wraps the reader it got from inner in its own reader
WrapHandle(a, m, r) ==
  IF a.name = "Counting" /\ BaseOp(m) = "read" /\ r.ok
  THEN [r EXCEPT !.h.wrap = Append(@, "Counting")]
  ELSE r

(* ------------------------------ backend -------------------------------- *)
Absent == [present |-> FALSE, data |-> <<>>]
File(d) == [present |-> TRUE, data |-> d]

\* OpRead carries a range: 0 the whole object, 1 everything after byte one
ReadRange(d, args) == IF args = 1 /\ Len(d) > 0 THEN Tail(d) ELSE d

\* OpBatch carries the paths to delete
BatchPaths(args) == IF args = 0 THEN {"/a"} ELSE Files

\* entries one level below path
Children(store, path) ==
  IF path # Root THEN <<>>
  ELSE (IF store["/a"].present THEN <<"/a">> ELSE <<>>)
       \o (IF store["/d/b"].present THEN <<"/d/">> ELSE <<>>)

\* entries at any depth below path
Descendants(store, path) ==
  IF path # Root THEN <<>>
  ELSE (IF store["/a"].present THEN <<"/a">> ELSE <<>>)
       \o (IF store["/d/b"].present THEN <<"/d/b">> ELSE <<>>)

\* OpList / OpScan carry a limit: 0 none, 1 a single entry
Limit(items, args) == IF args = 1 /\ Len(items) > 1 THEN <<items[1]>> ELSE items

Reader(path, d) == [type |-> "reader", wrap |-> <<>>, data |-> d, pos |-> 0, path |-> path]
Writer(path)    == [type |-> "writer", wrap |-> <<>>, data |-> <<>>, pos |-> 0, path |-> path]
Pager(path, it) == [type |-> "pager", wrap |-> <<>>, data |-> it, pos |-> 0, path |-> path]
Url(path)       == [type |-> "url", wrap |-> <<>>, data |-> <<>>, pos |-> 0, path |-> path]

\* the result of an operation of the in-memory backend and the store after it
BackendOp(op, path, args, st) ==
  LET b    == BaseOp(op)
      s    == st.store
      same(r) == [res |-> r, st |-> st]
  IN
  IF b = "info" THEN same(Ok("memory", 0, NoHandle))
  ELSE IF st.down THEN same(Err("Unexpected"))
  ELSE
  CASE b = "create" ->
         IF path \in Files /\ args = 0
         THEN [res |-> Ok("RpCreate", 0, NoHandle),
               st  |-> [st EXCEPT !.store[path] = File(<<>>)]]
         ELSE same(Ok("RpCreate", 0, NoHandle))
    [] b = "stat" ->
         IF path = Root THEN same(Ok("RpStat", 0, NoHandle))
         ELSE IF s[path].present
              THEN same(Ok("RpStat", Len(s[path].data), NoHandle))
              ELSE same(Err("NotFound"))
    [] b = "delete" ->
         IF path \in Files
         THEN [res |-> Ok("RpDelete", 0, NoHandle),
               st  |-> [st EXCEPT !.store[path] = Absent]]
         ELSE same(Ok("RpDelete", 0, NoHandle))
    [] b = "batch" ->
         [res |-> Ok("RpBatch", Cardinality(BatchPaths(args)), NoHandle),
          st  |-> [st EXCEPT !.store =
                     [f \in Files |-> IF f \in BatchPaths(args) THEN Absent ELSE s[f]]]]
    [] b = "presign" -> same(Ok("RpPresign", args, Url(path)))
    [] b = "read" ->
         IF path \in Files /\ s[path].present
         THEN LET d == ReadRange(s[path].data, args)
              IN same(Ok("RpRead", Len(d), Reader(path, d)))
         ELSE same(Err("NotFound"))
    [] b = "write" ->
         IF path \in Files
         THEN same(Ok("RpWrite", 0, Writer(path)))
         ELSE same(Err("InvalidInput"))
    [] b = "list" ->
         same(Ok("RpList", 0, Pager(path, Limit(Children(s, path), args))))
    [] b = "scan" ->
         same(Ok("RpScan", 0, Pager(path, Limit(Descendants(s, path), args))))

\* the methods an implementation of Accessor gets when it does not write them
AccessorDefault(op) == Err("Unsupported")

(* ------------------------ evaluation of one call ----------------------- *)
\* one method that ran: where, which, with what, and what it returned
Frame(lvl, iface, m, path, args, aw, res) ==
  [lvl |-> lvl, iface |-> iface, m |-> m, path |-> path, args |-> args,
   aw |-> aw, res |-> res]

\* impl Accessor for Test: info and delete are its own, the rest is default
TestOp(a, op, path, args, st) ==
  CASE op = "info" ->
         [res |-> Ok("test", 0, NoHandle), st |-> st]
    [] op = "delete" ->
         [res |-> IF a.inner THEN Ok("RpDelete", 0, NoHandle) ELSE Err("panic"),
          st  |-> [st EXCEPT !.deleted = TRUE]]
    [] OTHER ->
         [res |-> AccessorDefault(op), st |-> st]

RECURSIVE AccessorCall(_, _, _, _, _, _, _)
RECURSIVE LayeredCall(_, _, _, _, _, _, _)

\* Accessor::op on the accessor at level k of chain c; aw: the caller awaits
AccessorCall(c, k, op, path, args, aw, st) ==
  IF k = 0
  THEN LET r == BackendOp(op, path, args, st)
       IN [res |-> r.res, st |-> r.st,
           frames |-> <<Frame(0, "Backend", op, path, args, aw, r.res)>>]
  ELSE IF c[k].name = "Test"
  THEN LET r == TestOp(c[k], op, path, args, st)
       IN [res |-> r.res, st |-> r.st,
           frames |-> <<Frame(k, "Test", op, path, args, aw, r.res)>>]
  ELSE LET b == BridgeBody(op)
           r == LayeredCall(c, k, b.call, path, args, b.aw, st)
       IN [res |-> r.res, st |-> r.st,
           frames |-> <<Frame(k, "Accessor", op, path, args, aw, r.res)>> \o r.frames]

\* slip: a forwarding method that calls inner again when inner failed
LayeredCall_Retry(c, k, m, path, args, aw, st) ==
  LET b == MethodBody(c[k], m)
  IN IF ~b.has
     THEN [res |-> Err("unimplemented"), st |-> st,
           frames |-> <<Frame(k, "LayeredAccessor", m, path, args, aw, Err("unimplemented"))>>]
     ELSE LET r1  == AccessorCall(c, k - 1, b.call, path, args, b.aw, st)
              r2  == AccessorCall(c, k - 1, b.call, path, args, b.aw, r1.st)
              r   == IF r1.res.ok THEN r1
                     ELSE [res |-> r2.res, st |-> r2.st, frames |-> r1.frames \o r2.frames]
              res == WrapHandle(c[k], m, r.res)
          IN [res |-> res, st |-> r.st,
              frames |-> <<Frame(k, "LayeredAccessor", m, path, args, aw, res)>> \o r.frames]

\* LayeredAccessor::m on the layered accessor at level k of chain c
LayeredCall(c, k, m, path, args, aw, st) ==
  LET b == MethodBody(c[k], m)
  IN IF ~b.has
     THEN [res |-> Err("unimplemented"), st |-> st,
           frames |-> <<Frame(k, "LayeredAccessor", m, path, args, aw, Err("unimplemented"))>>]
     ELSE LET r   == AccessorCall(c, k - 1, b.call, path, args, b.aw, st)
              res == WrapHandle(c[k], m, r.res)
          IN [res |-> res, st |-> r.st,
              frames |-> <<Frame(k, "LayeredAccessor", m, path, args, aw, res)>> \o r.frames]

(* ------------------------------- state --------------------------------- *)
VARIABLES
  chain,     \* the layered accessors over the backend, innermost first
  store,     \* the objects of the in-memory backend
  down,      \* the backend fails every operation but info
  deleted,   \* the flag shared by the Test layer and its accessors
  counter,   \* the counter shared by the counting layer and its readers
  h,         \* the resource handle the caller holds, NoHandle if none
  got,       \* what the caller received from h so far
  base,      \* the value of counter when h was handed out
  seen,      \* the AccessorInfo of the latest info call, NoInfo once a
             \* mutating call has come after it
  last       \* the last thing the caller did and what came of it

vars == <<chain, store, down, deleted, counter, h, got, base, seen, last>>

Top == Len(chain)

\* the adapters a layer author may try to build a chain from
Candidates ==
  {TraceLayer, CountingLayer, TestLayer}
    \cup {Adapter("Trace", {m}) : m \in TraceMethods}

\* what the caller asks of the outermost accessor
Request(op, path, args) == [op |-> op, path |-> path, args |-> args]

PathOps == {"create", "blocking_create", "stat", "blocking_stat",
            "delete", "blocking_delete", "read", "blocking_read",
            "write", "blocking_write", "presign"}

DirOps == {"list", "blocking_list", "scan", "blocking_scan"}

\* the caller works on /a and lists the root
Requests ==
  {Request("info", "", 0)}
    \cup {Request("batch", "", a) : a \in Args}
    \cup {Request(op, "/a", a) : op \in PathOps, a \in Args}
    \cup {Request(op, Root, a) : op \in DirOps, a \in Args}

MutatingOps == {"create", "blocking_create", "write", "blocking_write",
                "delete", "blocking_delete", "batch"}

NoInfo == [res |-> Err("none"), n |-> 0]

\* the number of info calls that is told apart
InfoCalls == 2

NoCall == [res |-> Err("none"), st |-> [store |-> <<>>, deleted |-> FALSE, down |-> FALSE]]

Done(op, path, args, res, frames, direct, backend) ==
  [op |-> op, path |-> path, args |-> args, res |-> res, frames |-> frames,
   direct |-> direct, backend |-> backend]

St == [store |-> store, deleted |-> deleted, down |-> down]

Strip(r) == [res |-> r.res, st |-> r.st]

Init ==
  /\ chain = <<>>
  /\ store = [f \in Files |-> Absent]
  /\ down = FALSE
  /\ deleted = FALSE
  /\ counter = 0
  /\ h = NoHandle
  /\ got = <<>>
  /\ base = 0
  /\ seen = NoInfo
  /\ last = Done("new", "", 0, Ok("Operator", 0, NoHandle), <<>>, NoCall, NoCall)

(* ------------------------------ actions -------------------------------- *)
\* the method an adapter leaves out, "" if none
Missing(a) == IF a.missing = {} THEN "" ELSE CHOOSE m \in a.missing : TRUE

\* Operator::layer with a layer whose accessor type compiles
ApplyLayer(a) ==
  /\ Top < MaxDepth
  /\ Compiles(a)
  /\ chain' = Append(chain, LayerOf(a))
  /\ last' = Done("layer", Missing(a), 0, Ok("Accessor", Top + 1, NoHandle), <<>>, NoCall, NoCall)
  /\ h' = NoHandle /\ got' = <<>> /\ base' = counter /\ seen' = NoInfo
  /\ UNCHANGED <<store, down, deleted, counter>>

\* an adapter that leaves out a method without default body is refused
RejectLayer(a) ==
  /\ Top < MaxDepth
  /\ ~Compiles(a)
  /\ last' = Done("layer", Missing(a), 0, Err("E0046"), <<>>, NoCall, NoCall)
  /\ UNCHANGED <<chain, store, down, deleted, counter, h, got, base, seen>>

Min(a, b) == IF a < b THEN a ELSE b

\* one call of the caller on the outermost accessor; the caller has let go
\* of the handle of an earlier call
Call(q) ==
  LET aw == q.op \in AsyncOps
      d  == IF Top = 0 THEN NoCall
            ELSE Strip(AccessorCall(chain, Top - 1, q.op, q.path, q.args, aw, St))
      b  == BackendOp(q.op, q.path, q.args, St)
  IN \E r \in {AccessorCall(chain, Top, q.op, q.path, q.args, aw, St)} :
     /\ store' = r.st.store
     /\ deleted' = r.st.deleted
     /\ last' = Done(q.op, q.path, q.args, r.res, r.frames, d, b)
     /\ h' = IF r.res.h.type \in {"reader", "writer", "pager"} THEN r.res.h ELSE NoHandle
     /\ got' = <<>>
     /\ base' = counter
     /\ seen' = IF q.op = "info"
                THEN [res |-> r.res, n |-> Min(seen.n + 1, InfoCalls)]
                ELSE IF q.op \in MutatingOps THEN NoInfo
                ELSE seen
     /\ UNCHANGED <<chain, down, counter>>

Count(wrap) == Cardinality({i \in 1..Len(wrap) : wrap[i] = "Counting"})

\* The operations on a handle keep, in last, the frames and the direct
\* results of the call that handed the handle out.

\* oio::Read::read on the reader the caller holds: the wrapping readers pass
\* the request on and the counting ones add the bytes that came back
ReaderRead(n) ==
  LET chunk == SubSeq(h.data, h.pos + 1, Min(h.pos + n, Len(h.data)))
      add   == Len(chunk) * Count(h.wrap)
  IN /\ h.type = "reader"
     /\ counter + add <= MaxCount
     /\ counter' = counter + add
     /\ h' = [h EXCEPT !.pos = @ + Len(chunk)]
     /\ got' = got \o chunk
     /\ last' = Done("reader.read", h.path, n, Ok("bytes", Len(chunk), NoHandle),
                     last.frames, last.direct, last.backend)
     /\ UNCHANGED <<chain, store, down, deleted, base, seen>>

\* oio::Page::next on the cursor the caller holds: one entry, or the end
PagerNext ==
  /\ h.type = "pager"
  /\ IF h.pos < Len(h.data)
     THEN /\ h' = [h EXCEPT !.pos = @ + 1]
          /\ got' = Append(got, h.data[h.pos + 1])
          /\ last' = Done("pager.next", h.path, 0, Ok("page", 1, NoHandle),
                          last.frames, last.direct, last.backend)
     ELSE /\ UNCHANGED <<h, got>>
          /\ last' = Done("pager.next", h.path, 0, Ok("end", 0, NoHandle),
                          last.frames, last.direct, last.backend)
  /\ UNCHANGED <<chain, store, down, deleted, counter, base, seen>>

\* oio::Write::write on the sink the caller holds, which is then closed
WriterWrite ==
  /\ h.type = "writer"
  /\ IF down
     THEN /\ UNCHANGED store
          /\ last' = Done("writer.write", h.path, 0, Err("Unexpected"),
                          last.frames, last.direct, last.backend)
     ELSE /\ store' = [store EXCEPT ![h.path] = File(Hello)]
          /\ last' = Done("writer.write", h.path, 0, Ok("written", Len(Hello), NoHandle),
                          last.frames, last.direct, last.backend)
  /\ h' = NoHandle
  /\ got' = <<>>
  /\ seen' = NoInfo
  /\ UNCHANGED <<chain, down, deleted, counter, base>>

\* the backend starts or stops failing
Fault ==
  /\ down' = ~down
  /\ UNCHANGED <<chain, store, deleted, counter, h, got, base, seen, last>>

\* building chains and calling through them
Next ==
  \/ \E a \in Candidates : ApplyLayer(a)
  \/ \E a \in Candidates : RejectLayer(a)
  \/ \E q \in Requests : Call(q)
  \/ WriterWrite
  \/ Fault

Spec == Init /\ [][Next]_vars

(* --------------------- reading through the handles --------------------- *)
\* the backend holds /a with content "hello"
InitHandles ==
  /\ chain = <<>>
  /\ store \in {[f \in Files |-> IF f = "/a" THEN File(Hello) ELSE x] : x \in {Absent, File(<<>>)}}
  /\ down = FALSE
  /\ deleted = FALSE
  /\ counter = 0
  /\ h = NoHandle
  /\ got = <<>>
  /\ base = 0
  /\ seen = NoInfo
  /\ last = Done("new", "", 0, Ok("Operator", 0, NoHandle), <<>>, NoCall, NoCall)

HandleRequests ==
  {Request(op, "/a", a) : op \in {"read", "blocking_read"}, a \in Args}
    \cup {Request(op, Root, a) : op \in DirOps, a \in Args}
    \cup {Request("delete", "/a", 0), Request("stat", "/a", 0)}

NextHandles ==
  \/ \E a \in {TraceLayer, CountingLayer} : ApplyLayer(a)
  \/ \E q \in HandleRequests : Call(q)
  \/ \E n \in 1..MaxRead : ReaderRead(n)
  \/ PagerNext

SpecHandles == InitHandles /\ [][NextHandles]_vars

(* ============================== claims ================================= *)
\* the caller's last step was a call on the outermost accessor
IsCall == last.op \in AccessorOps

\* the accessor at level k is a layered adapter (it came by the blanket impl)
IsAdapter(k) == k >= 1 /\ chain[k].name # "Test"

\* the operations the trait forwards by itself, under their Accessor names
ForwardedOps == {"info", "create", "stat", "delete", "batch", "presign",
                 "blocking_create", "blocking_stat", "blocking_delete"}

\* the same, under their LayeredAccessor names
ForwardedMethods == {"metadata", "create", "stat", "delete", "batch", "presign",
                     "blocking_create", "blocking_stat", "blocking_delete"}

AccessorName(m) == IF m = "metadata" THEN "info" ELSE m

LayeredName(op) == IF op = "info" THEN "metadata" ELSE op

F == last.frames

\* C1: an operation the adapter does not override reaches the inner accessor
\* with the same path and arguments, and what the layered accessor returns
\* and leaves behind is what the same call on the inner accessor, made in
\* the same state, returns and leaves behind.
C1_Forwarding ==
  IsCall =>
    /\ \A i \in 1..Len(F) :
         (F[i].iface = "LayeredAccessor" /\ F[i].m \in ForwardedMethods) =>
           /\ i < Len(F)
           /\ F[i + 1].lvl = F[i].lvl - 1
           /\ F[i + 1].iface # "LayeredAccessor"
           /\ F[i + 1].m = AccessorName(F[i].m)
           /\ F[i + 1].path = F[i].path
           /\ F[i + 1].args = F[i].args
           /\ F[i].res = F[i + 1].res
    /\ (IsAdapter(Top) /\ last.op \in ForwardedOps) =>
           /\ F[1].path = last.path /\ F[1].args = last.args
           /\ last.res = last.direct.res
           /\ store = last.direct.st.store
           /\ deleted = last.direct.st.deleted

\* C1 witness: a blocking_create with non-default arguments went through two
\* adapters and succeeded
C1_Witness ==
  /\ last.op = "blocking_create" /\ last.args = 1 /\ last.res.ok
  /\ Top = 2 /\ IsAdapter(1) /\ IsAdapter(2)
  /\ Len(F) = 5

\* the frames in which the accessor at level k was entered
Entries(k) == {i \in 1..Len(F) : F[i].lvl = k /\ F[i].iface # "LayeredAccessor"}

\* C2: when the inner accessor fails an operation the adapter forwards by
\* default, the inner operation ran once and the caller gets that very error.
C2_ErrorsPassThrough ==
  (IsCall /\ IsAdapter(Top) /\ last.op \in ForwardedOps /\ ~last.direct.res.ok) =>
    /\ Cardinality(Entries(Top - 1)) = 1
    /\ \A i \in Entries(Top - 1) :
         /\ F[i].m = last.op
         /\ ~F[i].res.ok
         /\ last.res = F[i].res
    /\ last.res = last.direct.res
    /\ ~last.res.ok

\* C2 witness: a delete forwarded through two adapters failed in the backend
C2_Witness ==
  /\ last.op = "delete" /\ last.res = Err("Unexpected")
  /\ Top = 2 /\ IsAdapter(1) /\ IsAdapter(2)
  /\ Cardinality(Entries(1)) = 1

\* C3: every Accessor method of a layered adapter runs the LayeredAccessor
\* method of the same operation (info runs metadata) with the same path and
\* arguments and returns its result; that method, own or default, goes to
\* the same operation of the inner accessor.
C3_Bridge ==
  IsCall =>
    /\ (IsAdapter(Top) => F[1].iface = "Accessor" /\ F[1].lvl = Top /\ F[1].m = last.op)
    /\ (Len(F) > 0 => last.res = F[1].res)
    /\ \A i \in 1..Len(F) :
         /\ F[i].iface = "Accessor" =>
              /\ IsAdapter(F[i].lvl)
              /\ i < Len(F)
              /\ F[i + 1].iface = "LayeredAccessor"
              /\ F[i + 1].lvl = F[i].lvl
              /\ F[i + 1].m = LayeredName(F[i].m)
              /\ F[i + 1].path = F[i].path
              /\ F[i + 1].args = F[i].args
              /\ F[i + 1].res = F[i].res
         /\ F[i].iface = "LayeredAccessor" =>
              /\ i < Len(F)
              /\ F[i + 1].lvl = F[i].lvl - 1
              /\ F[i + 1].iface # "LayeredAccessor"
              /\ BaseOp(F[i + 1].m) = BaseOp(F[i].m)

\* C3 witness: a blocking_list got through the counting adapter's own method
C3_Witness ==
  /\ last.op = "blocking_list" /\ last.res.ok
  /\ Top >= 1 /\ chain[Top].name = "Counting"
  /\ F[2].iface = "LayeredAccessor" /\ F[2].m = "blocking_list"

BlockingNames == {"blocking_create", "blocking_read", "blocking_write",
                  "blocking_stat", "blocking_delete", "blocking_list",
                  "blocking_scan"}

AsyncNames == {"create", "read", "write", "stat", "delete", "list", "scan", "batch"}

SyncNames == {"info", "metadata", "presign"}

\* C10: a blocking method calls only the blocking form of the same operation
\* and awaits nothing, an asynchronous method calls only the asynchronous
\* form and awaits it, presign and info are plain calls all the way down.
C10_NoCrossing ==
  IsCall =>
    \A i \in 1..Len(F) :
      /\ F[i].m \in BlockingNames \cup AsyncNames \cup SyncNames
      /\ F[i].m \in BlockingNames => ~F[i].aw
      /\ F[i].m \in SyncNames => ~F[i].aw
      /\ F[i].m \in AsyncNames => F[i].aw
      /\ i < Len(F) =>
           /\ F[i].m \in BlockingNames => F[i + 1].m = F[i].m
           /\ F[i].m \in AsyncNames => F[i + 1].m = F[i].m
           /\ F[i].m \in SyncNames =>
                F[i + 1].m \in SyncNames /\ BaseOp(F[i + 1].m) = BaseOp(F[i].m)

\* C10 witness: a blocking_stat went down two adapters to the backend
C10_Witness ==
  /\ last.op = "blocking_stat"
  /\ Top = 2 /\ IsAdapter(1) /\ IsAdapter(2)
  /\ Len(F) = 5 /\ F[5].iface = "Backend" /\ F[5].m = "blocking_stat"

\* C4: the accessor the Test layer builds holds its inner accessor; a delete
\* through a chain whose outermost layer is Test runs Test's own delete
\* alone, which succeeds and sets the shared flag, and the flag, once set,
\* stays set.
C4_TestLayer ==
  /\ [](/\ \A k \in 1..Top : chain[k].name = "Test" => chain[k].inner
        /\ (last.op = "delete" /\ Top >= 1 /\ chain[Top].name = "Test") =>
             /\ F = <<Frame(Top, "Test", "delete", last.path, last.args, TRUE, last.res)>>
             /\ last.res = Ok("RpDelete", 0, NoHandle)
             /\ deleted)
  /\ [][deleted => deleted']_vars

\* C4 witness: as in tests::test_layer, one Test layer over the backend and
\* a delete through it, the object of the backend being left alone
C4_Witness ==
  /\ chain = <<TestLayerOf(TestFactory)>>
  /\ last.op = "delete" /\ last.path = "/a" /\ last.res.ok
  /\ deleted
  /\ store["/a"].present

\* the chains that hold the layers of c in some order
Reorderings(c) ==
  {d \in [1..Len(c) -> {c[k] : k \in 1..Len(c)}] :
     \A x \in {c[k] : k \in 1..Len(c)} :
       Cardinality({k \in 1..Len(c) : d[k] = x}) = Cardinality({k \in 1..Len(c) : c[k] = x})}

\* no layer of chain c has a method of its own for operation op
Unintercepted(c, op) ==
  \A k \in 1..Len(c) : c[k].name \in {"Trace", "Counting"} /\ op \in ForwardedOps

\* C5: an operation no layer of the chain overrides reaches the backend once
\* and returns the backend's result, whatever the depth; and in any state a
\* chain answers such an operation as every reordering of its layers, and as
\* each single layer of it alone, does.
C5_Composition ==
  /\ (IsCall /\ Unintercepted(chain, last.op)) =>
       /\ Cardinality(Entries(0)) = 1
       /\ F[Len(F)] = Frame(0, "Backend", last.op, last.path, last.args,
                            last.op \in AsyncNames, last.res)
       /\ Len(F) = 2 * Top + 1
       /\ last.res = last.backend.res
       /\ store = last.backend.st.store
       /\ deleted = last.backend.st.deleted
  /\ (last.op = "layer" /\ last.res.ok) =>
       \A q \in Requests :
         Unintercepted(chain, q.op) =>
           \A d \in Reorderings(chain) \cup {<<chain[k]>> : k \in 1..Top} :
             Strip(AccessorCall(d, Len(d), q.op, q.path, q.args, q.op \in AsyncNames, St))
               = Strip(AccessorCall(chain, Top, q.op, q.path, q.args, q.op \in AsyncNames, St))

\* C5 witness: a batch went through a trace layer and a counting layer, in
\* that order, and emptied the backend
C5_Witness ==
  /\ chain = <<TraceLayerOf(TraceLayer), TraceLayerOf(CountingLayer)>>
  /\ last.op = "batch" /\ last.args = 1 /\ last.res.ok
  /\ Len(F) = 5

\* C5 witness of the second half: the two layers were just put on a backend
\* that holds an object, the counting one first
C5_WitnessOrder ==
  /\ chain = <<TraceLayerOf(CountingLayer), TraceLayerOf(TraceLayer)>>
  /\ last.op = "layer" /\ last.res.ok
  /\ store["/a"] = File(Hello)

\* C7: an info call (the step that records it in last or seen) changes
\* nothing in the accessors or the backend, and it returns what the info
\* call before it returned if no mutating call came in between.
C7_InfoIdempotent ==
  [][(last'.op = "info" /\ <<last, seen>>' # <<last, seen>>) =>
       /\ UNCHANGED <<chain, store, down, deleted, counter>>
       /\ seen.n > 0 => last'.res = seen.res]_vars

\* C7 witness: info was called twice in a row through two layers, the
\* backend having started to fail meanwhile
C7_Witness ==
  /\ last.op = "info" /\ seen.n = 2 /\ seen.res = last.res
  /\ Top = 2 /\ IsAdapter(2)
  /\ down

MandatoryMethods == {"read", "write", "list", "scan", "blocking_read",
                     "blocking_write", "blocking_list", "blocking_scan"}

\* C9: every layered adapter of a chain has its own read, write, list, scan
\* and blocking forms of these; an adapter that leaves one of them out is
\* refused when it is composed; and no call ends in a method without body.
C9_MandatoryMethods ==
  /\ \A k \in 1..Top : IsAdapter(k) => MandatoryMethods \subseteq Supplied(chain[k])
  /\ (last.op = "layer" /\ last.path \in MandatoryMethods) => last.res = Err("E0046")
  /\ last.res.kind # "unimplemented"
  /\ \A i \in 1..Len(F) : F[i].res.kind # "unimplemented"

\* C9 witness: on top of a trace adapter, an adapter without blocking_scan
\* was refused
C9_Witness ==
  /\ last.op = "layer" /\ last.path = "blocking_scan" /\ ~last.res.ok
  /\ chain = <<TraceLayerOf(TraceLayer)>>

\* every layer of the chain is the documented passthrough adapter
Passthrough == Top >= 1 /\ \A k \in 1..Top : chain[k].name = "Trace"

\* the handle the inner accessor hands out for the request that opened h
InnerHandle == last.direct.res.h

\* C6: through passthrough adapters the caller holds the very handle of the
\* inner accessor: the bytes it has read are, in order, those at the start
\* of the inner handle; each read gives as many bytes as the inner handle
\* has left, up to the number asked; a cursor gives the inner cursor's
\* entries in order and signals the end when, and only when, all were given.
C6_HandleFidelity ==
  (Passthrough /\ h.type \in {"reader", "pager"}) =>
    /\ [h EXCEPT !.pos = 0] = InnerHandle
    /\ got = SubSeq(InnerHandle.data, 1, Len(got))
    /\ h.pos = Len(got)
    /\ last.op = "reader.read" =>
         last.res.len = Min(last.args, Len(InnerHandle.data) - (Len(got) - last.res.len))
    /\ last.op = "pager.next" =>
         /\ last.res.kind = "end" <=> last.res.len = 0
         /\ last.res.kind = "end" => got = InnerHandle.data
         /\ last.res.kind = "page" => got # <<>> /\ Len(got) <= Len(InnerHandle.data)

\* C6 witness: a listing through two passthrough adapters gave its two
\* entries and then the end
C6_Witness ==
  /\ Passthrough /\ Top = 2
  /\ h.type = "pager" /\ F[1].m = "list"
  /\ last.op = "pager.next" /\ last.res.kind = "end"
  /\ got = <<"/a", "/d/">>

\* the chain of the scenario: one counting layer on the in-memory backend
CountingChain == <<TraceLayerOf(CountingLayer)>>

\* C8: with /a = "hello" behind one counting layer, the reader of /a counts
\* every byte it delivers; read to the end from a counter of zero it has
\* delivered "hello" and the counter is 5; a stat of /a that follows a
\* delete of /a is answered NotFound.
C8_Scenario ==
  /\ [](/\ (chain = CountingChain /\ h.type = "reader") => counter = base + Len(got)
        /\ (/\ chain = CountingChain /\ h.type = "reader"
            /\ BaseOp(F[1].m) = "read" /\ F[1].path = "/a" /\ F[1].args = 0
            /\ store["/a"] = File(Hello) /\ base = 0
            /\ last.op = "reader.read" /\ last.res.len = 0) =>
             got = Hello /\ counter = 5)
  /\ [][(/\ last.op = "delete" /\ last.path = "/a" /\ last.res.ok
         /\ last'.op = "stat" /\ last'.path = "/a"
         /\ chain' = CountingChain) =>
          last'.res = Err("NotFound")]_vars

\* C8 witness: after the five bytes were counted, /a was deleted and the
\* stat that followed found nothing
C8_Witness ==
  /\ chain = CountingChain
  /\ counter = 5
  /\ ~store["/a"].present
  /\ last.op = "stat" /\ last.path = "/a" /\ last.res = Err("NotFound")

====
